---- MODULE Spec2Model ----
(***************************************************************************)
(* Gradient-descent optimizer of src/analysis/matrix_factorization.py:     *)
(* optimize_factorization_grad_descent with its nested Armijo line search  *)
(* find_next_iterate, over 2x2 real matrices.                              *)
(*                                                                         *)
(* Numbers.  The code runs in float64 (jax_enable_x64).  A float is the    *)
(* tuple <<s, e, h, l>> of an IEEE 754 binary64 number: it stands for      *)
(* (-1)^s * (h * 2^27 + l) * 2^e with 0 <= l < 2^27.  The significand      *)
(* h * 2^27 + l of a normal number lies in [2^52, 2^53) and its exponent   *)
(* e in MinE..MaxE; a subnormal number has e = MinE and a significand      *)
(* below 2^52; the two zeros are <<0, MinE, 0, 0>> and <<1, MinE, 0, 0>>;  *)
(* the infinities are <<s, InfE, 0, 0>> and NaN is <<0, NaNE, 0, 0>>.      *)
(* Addition, subtraction, multiplication, division and square root give    *)
(* the correctly rounded result (round to nearest, ties to even).          *)
(***************************************************************************)
EXTENDS Integers, Sequences, FiniteSets

\* ---------------------------------------------------------------- bounds
\* Largest n_iters explored.
MaxIters == 3
\* Size of the change of the wall clock between two samples of time.time().
MaxTick == 1
\* Number of find_next_iterate frames the interpreter's stack has room for
\* below the driver: the recursive call made by frame MaxDepth raises
\* RecursionError.
MaxDepth == 988

\* ------------------------------------------------------- binary64 numbers
\* Powers of two up to 2^30.
Pow2Tab ==
    <<1, 2, 4, 8, 16, 32, 64, 128, 256, 512, 1024, 2048, 4096, 8192, 16384,
      32768, 65536, 131072, 262144, 524288, 1048576, 2097152, 4194304,
      8388608, 16777216, 33554432, 67108864, 134217728, 268435456,
      536870912, 1073741824>>

Pow2(k) == Pow2Tab[k + 1]

\* Base of the low limb of a significand: 2^27.
Lo == 134217728

\* Size of a limb of the multiplication and of the division: 2^14.
Limb == 16384

\* Number of significand bits of a binary64 number.
Precision == 53

\* Exponent of the unit in the last place of the smallest and of the largest
\* finite numbers, and the exponent fields standing for infinity and NaN.
MinE == -1074

MaxE == 971

InfE == MaxE + 1

NaNE == MaxE + 2

NaN == <<0, NaNE, 0, 0>>

Inf(s) == <<s, InfE, 0, 0>>

PosInf == Inf(0)

NegInf == Inf(1)

FZero(s) == <<s, MinE, 0, 0>>

Zero == FZero(0)

IsNaN(a) == a[2] = NaNE

IsInf(a) == a[2] = InfE

IsZero(a) == a[2] <= MaxE /\ a[3] = 0 /\ a[4] = 0

\* Number of bits of 0 <= x < 2^31.
BitLen(x) ==
    IF x = 0 THEN 0
    ELSE CHOOSE n \in 1..31 :
             /\ Pow2(n - 1) <= x
             /\ IF n = 31 THEN TRUE ELSE x < Pow2(n)

\* A nonnegative integer below 2^58 is a pair <<h, l>> of value h * 2^27 + l
\* with 0 <= l < 2^27.
Carry(h, l) == <<h + l \div Lo, l % Lo>>

Bits(y) == IF y[1] > 0 THEN 27 + BitLen(y[1]) ELSE BitLen(y[2])

LessP(x, y) == x[1] < y[1] \/ (x[1] = y[1] /\ x[2] < y[2])

AddP(x, y) == Carry(x[1] + y[1], x[2] + y[2])

\* x - y for x >= y.
SubP(x, y) ==
    IF x[2] >= y[2] THEN <<x[1] - y[1], x[2] - y[2]>>
    ELSE <<x[1] - y[1] - 1, x[2] + Lo - y[2]>>

\* y + 1 for a pair whose low limb is even.
Inc(y) == <<y[1], y[2] + 1>>

\* The lowest bit set when bits were lost (the sticky bit).
Jam(l, lost) == IF lost /\ l % 2 = 0 THEN l + 1 ELSE l

\* y shifted right by k bits; the bits shifted out are kept as a sticky bit.
SHR(y, k) ==
    IF k = 0 THEN y
    ELSE IF k < 27 THEN
        <<y[1] \div Pow2(k),
          Jam((y[2] \div Pow2(k)) + (y[1] % Pow2(k)) * Pow2(27 - k),
              y[2] % Pow2(k) # 0)>>
    ELSE IF k < 58 THEN
        <<(y[1] \div Pow2(k - 27)) \div Lo,
          Jam((y[1] \div Pow2(k - 27)) % Lo,
              y[2] # 0 \/ y[1] % Pow2(k - 27) # 0)>>
    ELSE <<0, IF y[1] = 0 /\ y[2] = 0 THEN 0 ELSE 1>>

\* y shifted left by 0 <= k <= 26 bits.
SHL1(y, k) ==
    <<y[1] * Pow2(k) + y[2] \div Pow2(27 - k), (y[2] % Pow2(27 - k)) * Pow2(k)>>

\* y shifted left by 0 <= k <= 78 bits.
SHL(y, k) ==
    IF k <= 26 THEN SHL1(y, k)
    ELSE IF k <= 52 THEN SHL1(SHL1(y, 26), k - 26)
    ELSE SHL1(SHL1(SHL1(y, 26), 26), k - 52)

\* y shifted right by k bits for k >= 0, left by -k bits for k < 0.
Shift(y, k) == IF k >= 0 THEN SHR(y, k) ELSE SHL(y, -k)

\* The significand <<mh, ml>> followed by the three bits r, rounded to the
\* nearest significand, ties to the even one.
RoundUp(mh, ml, r) ==
    IF r > 4 \/ (r = 4 /\ ml % 2 = 1) THEN Carry(mh, ml + 1) ELSE <<mh, ml>>

\* The float of sign s, exponent e and rounded significand m <= 2^53:
\* 2^53 is 2^52 at the next exponent, and an exponent above MaxE is infinity.
Finish(s, e, m) ==
    IF m[1] >= Pow2(26)
    THEN (IF e + 1 > MaxE THEN Inf(s) ELSE <<s, e + 1, Pow2(25), 0>>)
    ELSE IF e > MaxE THEN Inf(s) ELSE <<s, e, m[1], m[2]>>

\* (-1)^s * z * 2^e rounded at the exponent e + 3: the three low bits of z
\* are rounded away.
RoundAt(s, e, z) ==
    Finish(s, e + 3,
           RoundUp(z[1] \div 8, z[2] \div 8 + (z[1] % 8) * Pow2(24), z[2] % 8))

\* (-1)^s * y * 2^e for y # 0 with the top bit of y sh bits away from bit 55:
\* y is shifted to 56 bits, or less far when the result is subnormal.
RoundBits(s, e, y, sh) ==
    IF e + sh < MinE - 3 THEN RoundAt(s, MinE - 3, Shift(y, MinE - 3 - e))
    ELSE RoundAt(s, e + sh, Shift(y, sh))

\* The binary64 number nearest to (-1)^s * y * 2^e, ties to the even
\* significand; bit 0 of y is a sticky bit.  Results below the normal range
\* are rounded at the exponent MinE, results above the range are infinite.
RoundPack(s, e, y) ==
    IF y[1] = 0 /\ y[2] = 0 THEN FZero(s)
    ELSE RoundBits(s, e, y, Bits(y) - (Precision + 3))

\* The integer n, |n| < 2^27, as a binary64 number.
FInt(n) == RoundPack(IF n < 0 THEN 1 ELSE 0, 0, <<0, IF n < 0 THEN -n ELSE n>>)

\* y shifted left by k bits, with the exponent e lowered by k.
Scaled(e, y, k) == <<e - k, SHL(y, k)>>

\* Exponent and significand of a finite nonzero number, the significand
\* scaled into [2^52, 2^53).
Normalize(a) ==
    Scaled(a[2], <<a[3], a[4]>>, Precision - Bits(<<a[3], a[4]>>))

FNeg(a) == IF IsNaN(a) THEN NaN ELSE <<1 - a[1], a[2], a[3], a[4]>>

FAbs(a) == IF IsNaN(a) THEN NaN ELSE <<0, a[2], a[3], a[4]>>

\* (-1)^sa * x * 2^e + (-1)^sb * y * 2^e.
AddMag(sa, sb, e, x, y) ==
    IF sa # sb /\ x = y THEN Zero
    ELSE RoundPack(IF sa = sb \/ LessP(y, x) THEN sa ELSE sb, e,
                   IF sa = sb THEN AddP(x, y)
                   ELSE IF LessP(x, y) THEN SubP(y, x) ELSE SubP(x, y))

\* a + b for finite a and b with a[2] >= b[2]: both significands get three
\* more bits, and that of b is shifted to the exponent of a.
AddFinite(a, b) ==
    AddMag(a[1], b[1], a[2] - 3, SHL1(<<a[3], a[4]>>, 3),
           SHR(SHL1(<<b[3], b[4]>>, 3), a[2] - b[2]))

FAdd(a, b) ==
    IF IsNaN(a) \/ IsNaN(b) THEN NaN
    ELSE IF IsInf(a) THEN (IF IsInf(b) /\ a[1] # b[1] THEN NaN ELSE a)
    ELSE IF IsInf(b) THEN b
    ELSE IF a[2] >= b[2] THEN AddFinite(a, b)
    ELSE AddFinite(b, a)

FSub(a, b) == FAdd(a, FNeg(b))

\* The four 14-bit limbs, lowest first, of y < 2^56.
Limbs(y) ==
    <<y[2] % Limb,
      y[2] \div Limb + (y[1] % 2) * (Limb \div 2),
      (y[1] \div 2) % Limb,
      y[1] \div (2 * Limb)>>

\* The seven column sums, lowest first, of the product of two numbers of
\* four limbs.
Columns(a, b) ==
    <<a[1] * b[1],
      a[1] * b[2] + a[2] * b[1],
      a[1] * b[3] + a[2] * b[2] + a[3] * b[1],
      a[1] * b[4] + a[2] * b[3] + a[3] * b[2] + a[4] * b[1],
      a[2] * b[4] + a[3] * b[3] + a[4] * b[2],
      a[3] * b[4] + a[4] * b[3],
      a[4] * b[4]>>

\* The limbs p[1..k], lowest first, of the integer whose limbs before the
\* carries are t[1..k]; the top limb keeps what is above it and may be
\* negative.
RECURSIVE Settle(_, _, _)
Settle(t, k, c) ==
    IF k = Len(t) THEN <<t[k] + c>>
    ELSE <<(t[k] + c) % Limb>> \o Settle(t, k + 1, (t[k] + c) \div Limb)

\* The product p of seven limbs without its 50 low bits, which are kept as
\* a sticky bit.
DropLow(p) ==
    <<p[6] \div 128 + p[7] * 128,
      Jam(p[4] \div 256 + p[5] * 64 + (p[6] % 128) * Pow2(20),
          p[1] # 0 \/ p[2] # 0 \/ p[3] # 0 \/ p[4] % 256 # 0)>>

\* The product of two significands of [2^52, 2^53) without its 50 low bits.
MulMant(x, y) == DropLow(Settle(Columns(Limbs(x), Limbs(y)), 1, 0))

\* The product of two normalized numbers <<exponent, significand>>.
MulNorm(s, x, y) == RoundPack(s, x[1] + y[1] + 50, MulMant(x[2], y[2]))

FMul(a, b) ==
    IF IsNaN(a) \/ IsNaN(b) THEN NaN
    ELSE IF IsInf(a) \/ IsInf(b)
         THEN (IF IsZero(a) \/ IsZero(b) THEN NaN
               ELSE Inf((a[1] + b[1]) % 2))
    ELSE IF IsZero(a) \/ IsZero(b) THEN FZero((a[1] + b[1]) % 2)
    ELSE MulNorm((a[1] + b[1]) % 2, Normalize(a), Normalize(b))

\* v + d for five limbs v and a divisor d of four limbs, lowest first.
AddBack(v, d) ==
    Settle(<<v[1] + d[1], v[2] + d[2], v[3] + d[3], v[4] + d[4], v[5]>>, 1, 0)

\* The four low limbs of v.
Low4(v) == <<v[1], v[2], v[3], v[4]>>

\* The limb q - 1 of a quotient with the remainder v + d when the remainder
\* v that goes with q is negative, else q with v; twice.
Fix2(q, v, d) ==
    IF v[5] < 0 THEN <<q - 1, Low4(AddBack(v, d))>> ELSE <<q, Low4(v)>>

Fix1(q, v, d) ==
    IF v[5] < 0 THEN Fix2(q - 1, AddBack(v, d), d) ELSE <<q, Low4(v)>>

\* r * Limb - q * d.
Remainder(q, r, d) ==
    Settle(<<-(q * d[1]), r[1] - q * d[2], r[2] - q * d[3], r[3] - q * d[4],
             r[4]>>, 1, 0)

\* The estimate of the next limb of a quotient from the two top limbs of
\* the remainder and the top limb of the divisor.
Estimate(top, d4) == IF top \div d4 >= Limb THEN Limb - 1 ELSE top \div d4

\* One more limb of a quotient (long division in base 2^14).  r < d are the
\* remainder and the divisor, four limbs each, lowest first, and the top
\* limb of d is at least Limb / 2, so the estimate is at most 2 too large.
\* The result is <<limb, remainder>>.
DivLimb(r, d) ==
    Fix1(Estimate(r[4] * Limb + r[3], d[4]),
         Remainder(Estimate(r[4] * Limb + r[3], d[4]), r, d), d)

\* The quotient q, a pair, with one more limb.
PushLimb(q, limb) == <<q[1] * Limb + q[2] \div (Limb \div 2),
                       (q[2] % (Limb \div 2)) * Limb + limb>>

\* The state <<quotient, remainder, limbs to go>> after the limb s[1] with
\* remainder s[2].
DivNext(st, s) == <<PushLimb(st[1], s[1]), s[2], st[3] - 1>>

\* The quotient of the division by d continued from st; its last bit is a
\* sticky bit.
RECURSIVE DivLimbs(_, _)
DivLimbs(st, d) ==
    IF st[3] = 0 THEN <<st[1][1], Jam(st[1][2], st[2] # <<0, 0, 0, 0>>)>>
    ELSE DivLimbs(DivNext(st, DivLimb(st[2], d)), d)

\* floor(n * 2^56 / m) for n, m in [2^55, 2^56).
DivStart(n, m) ==
    IF LessP(n, m) THEN DivLimbs(<<<<0, 0>>, Limbs(n), 4>>, Limbs(m))
    ELSE DivLimbs(<<<<0, 1>>, Limbs(SubP(n, m)), 4>>, Limbs(m))

\* floor(x * 2^56 / y) for significands x, y of [2^52, 2^53); the last bit
\* is a sticky bit.
DivMant(x, y) == DivStart(SHL1(x, 3), SHL1(y, 3))

\* The quotient of two normalized numbers <<exponent, significand>>.
DivNorm(s, x, y) ==
    RoundPack(s, x[1] - y[1] - (Precision + 3), DivMant(x[2], y[2]))

FDiv(a, b) ==
    IF IsNaN(a) \/ IsNaN(b) THEN NaN
    ELSE IF IsInf(a) THEN (IF IsInf(b) THEN NaN ELSE Inf((a[1] + b[1]) % 2))
    ELSE IF IsInf(b) THEN FZero((a[1] + b[1]) % 2)
    ELSE IF IsZero(b)
         THEN (IF IsZero(a) THEN NaN ELSE Inf((a[1] + b[1]) % 2))
    ELSE IF IsZero(a) THEN FZero((a[1] + b[1]) % 2)
    ELSE DivNorm((a[1] + b[1]) % 2, Normalize(a), Normalize(b))

\* The pair of bits 2t+1, 2t of m = <<hi, lo>>, of value hi * 2^26 + lo.
BitPair(m, t) ==
    IF t < 13 THEN (m[2] \div Pow2(2 * t)) % 4
    ELSE (m[1] \div Pow2(2 * (t - 13))) % 4

\* The next bit of a square root: 1 when the remainder r4 holds the trial
\* subtrahend, which is then taken off.  r2 is twice the root so far.
SqrtPick(r2, trial, r4, j) ==
    IF LessP(r4, trial) THEN <<r2, r4, j - 1>>
    ELSE <<Inc(r2), SubP(r4, trial), j - 1>>

\* The remainder sh with the pair of bits j of m * 2^58 brought down.
BringDown(m, sh, j) ==
    <<sh[1], sh[2] + (IF j >= 29 THEN BitPair(m, j - 29) ELSE 0)>>

\* One more bit of a square root: st = <<root, rem, j>> holds the root bits
\* found so far, the remainder, and the index j of the next pair of bits of
\* m * 2^58 to bring down.
SqrtStep(m, st) ==
    SqrtPick(SHL1(st[1], 1), Inc(SHL1(st[1], 2)),
             BringDown(m, SHL1(st[2], 2), st[3]), st[3])

\* The integer square root of m * 2^58 continued from st; its last bit is a
\* sticky bit.
RECURSIVE SqrtBits(_, _)
SqrtBits(m, st) ==
    IF st[3] < 0 THEN <<st[1][1], Jam(st[1][2], st[2] # <<0, 0>>)>>
    ELSE SqrtBits(m, SqrtStep(m, st))

\* The square root of y * 2^e for an even e and y in [2^52, 2^54).
SqrtEven(e, y) ==
    RoundPack(0, e \div 2 - 29,
              SqrtBits(<<y[1] * 2 + y[2] \div Pow2(26), y[2] % Pow2(26)>>,
                       <<<<0, 0>>, <<0, 0>>, 55>>))

\* The square root of a normalized number <<exponent, significand>>.
SqrtNorm(x) ==
    IF x[1] % 2 = 1 THEN SqrtEven(x[1] - 1, SHL1(x[2], 1))
    ELSE SqrtEven(x[1], x[2])

FSqrt(a) ==
    IF IsNaN(a) THEN NaN
    ELSE IF IsZero(a) THEN a
    ELSE IF a[1] = 1 THEN NaN
    ELSE IF IsInf(a) THEN a
    ELSE SqrtNorm(Normalize(a))

\* a < b, a <= b and a == b as the comparison of two floats: false when
\* either is NaN, and the two zeros are equal.
FLess(a, b) ==
    IF IsNaN(a) \/ IsNaN(b) THEN FALSE
    ELSE IF IsZero(a) /\ IsZero(b) THEN FALSE
    ELSE IF a[1] # b[1] THEN a[1] = 1
    ELSE IF a[1] = 0
         THEN \/ a[2] < b[2]
              \/ (a[2] = b[2] /\ LessP(<<a[3], a[4]>>, <<b[3], b[4]>>))
         ELSE \/ b[2] < a[2]
              \/ (a[2] = b[2] /\ LessP(<<b[3], b[4]>>, <<a[3], a[4]>>))

FEq(a, b) ==
    IF IsNaN(a) \/ IsNaN(b) THEN FALSE
    ELSE (IsZero(a) /\ IsZero(b)) \/ a = b

FLe(a, b) == FLess(a, b) \/ FEq(a, b)

\* The literals of the code.
One == FInt(1)

Two == FInt(2)

\* 0.1
Tenth == FDiv(FInt(1), FInt(10))

\* 0.25
Quarter == FDiv(FInt(1), FInt(4))

\* The float nearest to n / d: the float of a decimal literal for d a power
\* of ten.
Ratio(n, d) == FDiv(FInt(n), FInt(d))

\* --------------------------------------------------------------- matrices
Idx == {1, 2}

Mat(a, b, c, d) == <<<<a, b>>, <<c, d>>>>

Transpose(m) == [i \in Idx |-> [j \in Idx |-> m[j][i]]]

\* p @ q: each entry is the sum of the two products.
MatMul(p, q) ==
    [i \in Idx |-> [j \in Idx |->
        FAdd(FMul(p[i][1], q[1][j]), FMul(p[i][2], q[2][j]))]]

MatSub(p, q) == [i \in Idx |-> [j \in Idx |-> FSub(p[i][j], q[i][j])]]

MatScale(m, s) == [i \in Idx |-> [j \in Idx |-> FMul(m[i][j], s)]]

MatNeg(m) == [i \in Idx |-> [j \in Idx |-> FNeg(m[i][j])]]

Trace(m) == FAdd(m[1][1], m[2][2])

\* jnp.max(jnp.diag(x)): nan as soon as one entry is nan.
MaxDiag(m) ==
    IF IsNaN(m[1][1]) \/ IsNaN(m[2][2]) THEN NaN
    ELSE IF FLess(m[1][1], m[2][2]) THEN m[2][2] ELSE m[1][1]

\* jnp.sum(grad ** 2)
SumSquares(m) ==
    FAdd(FAdd(FAdd(FMul(m[1][1], m[1][1]), FMul(m[1][2], m[1][2])),
              FMul(m[2][1], m[2][1])),
         FMul(m[2][2], m[2][2]))

\* jnp.linalg.inv(m): the solution of m @ y = identity by LU factorization
\* with partial pivoting (LAPACK getrf) and two triangular solves.  The row
\* with the larger first entry becomes the pivot row <<a, b>>, the other
\* row <<c, d>> is reduced with the multiplier l to <<0, u22>>, and each
\* column <<e1, e2>> of the permuted identity is solved forward and
\* backward.  getrf scales the column below a pivot by the reciprocal of the
\* pivot, l = c * (1 / a), divides instead when the pivot is below the
\* safe minimum, and leaves the column alone when the pivot is 0; an LU
\* that divides by the pivot, l = c / a, differs from it in the last bit
\* of l.  The divisions by the zero u22 or a of a singular matrix give
\* entries that are not finite.

\* The safe minimum of binary64 (dlamch('S')): 2^-1022, the smallest normal
\* number.
Sfmin == <<0, MinE, Pow2(25), 0>>

PivotRows(m) ==
    IF FLess(FAbs(m[1][1]), FAbs(m[2][1])) THEN <<m[2], m[1], TRUE>>
    ELSE <<m[1], m[2], FALSE>>

Multiplier(scaling, c, a) ==
    IF IsZero(a) THEN c
    ELSE IF scaling = "reciprocal" /\ FLe(Sfmin, FAbs(a))
         THEN FMul(c, FDiv(One, a))
    ELSE FDiv(c, a)

BackSolve(a, b, e1, x2) == <<FDiv(FSub(e1, FMul(b, x2)), a), x2>>

SolveLU(a, b, l, u22, e1, e2) ==
    BackSolve(a, b, e1, FDiv(FSub(e2, FMul(l, e1)), u22))

Columns2(c1, c2) == Mat(c1[1], c2[1], c1[2], c2[2])

InvReduced(a, b, l, u22, swap) ==
    Columns2(SolveLU(a, b, l, u22, IF swap THEN Zero ELSE One,
                     IF swap THEN One ELSE Zero),
             SolveLU(a, b, l, u22, IF swap THEN One ELSE Zero,
                     IF swap THEN Zero ELSE One))

InvFactor(a, b, l, d, swap) == InvReduced(a, b, l, FSub(d, FMul(l, b)), swap)

InvPivoted(scaling, p) ==
    InvFactor(p[1][1], p[1][2], Multiplier(scaling, p[2][1], p[1][1]),
              p[2][2], p[3])

InvWith(scaling, m) == InvPivoted(scaling, PivotRows(m))

\* jnp.linalg.inv is not part of the repository: which of the two scalings
\* its LU uses is a property of the installed library, fixed for a run.
VARIABLE pivot_scaling

Inv(m) == InvWith(pivot_scaling, m)

\* Mutant: the projection onto the symmetric matrices is dropped.
Symmetrize_NoProjection(m) == m

\* (x + x.T) / 2
Symmetrize(m) ==
    [i \in Idx |-> [j \in Idx |-> FDiv(FAdd(m[i][j], m[j][i]), Two)]]

\* jnp.any(jnp.isnan(jnp.linalg.cholesky(candidate))).  cholesky factors
\* the symmetrized input column by column: l11 = sqrt(s11),
\* l21 = s21 / l11, l22 = sqrt(s22 - l21 * l21).  A pivot s11 or
\* s22 - l21 * l21 that is not above 0 makes the factorization fail, and
\* the result is then filled with nan.
CholeskyPivot(s22, l21) == FSub(s22, FMul(l21, l21))

CholeskyFails(s) ==
    IF FLess(Zero, s[1][1])
    THEN ~FLess(Zero, CholeskyPivot(s[2][2], FDiv(s[2][1], FSqrt(s[1][1]))))
    ELSE TRUE

NonPD(m) == CholeskyFails(Symmetrize(m))

\* ------------------------------------------------------------------- loss
hermitian_adjoint(m) == Transpose(m)

compute_loss_in_x(tgt, x) ==
    FMul(Trace(MatMul(MatMul(hermitian_adjoint(tgt), tgt), Inv(x))),
         MaxDiag(x))

\* value_and_grad(compute_loss)(x)[1], the reverse pass through
\* compute_loss_in_x.  The cotangent m_bar of m is max_diag on the diagonal,
\* that of y = inv(x) is b.T @ m_bar with b = hermitian_adjoint(target) @
\* target, and that of x through inv is x_bar = -((y.T @ y_bar) @ y.T); max
\* hands raw_trace, divided by the number of diagonal entries that attain
\* the maximum, to each of those entries.
InvCotangent(b, y, max_diag) ==
    MatNeg(MatMul(MatMul(Transpose(y),
                         MatMul(Transpose(b),
                                Mat(max_diag, Zero, Zero, max_diag))),
                  Transpose(y)))

AtMax(x, max_diag) ==
    [i \in Idx |-> IF FEq(x[i][i], max_diag) THEN One ELSE Zero]

\* The sum of the two cotangents of x: off the diagonal the one of max is
\* 0.0, so a -0.0 of x_bar becomes 0.0.
MaxCotangent(x_bar, raw_trace, at_max) ==
    [i \in Idx |-> [j \in Idx |->
        FAdd(x_bar[i][j],
             IF i = j
             THEN FMul(FDiv(raw_trace, FAdd(at_max[1], at_max[2])), at_max[i])
             ELSE Zero)]]

GradAt(b, y, x, max_diag) ==
    MaxCotangent(InvCotangent(b, y, max_diag), Trace(MatMul(b, y)),
                 AtMax(x, max_diag))

loss_grad(tgt, x) ==
    GradAt(MatMul(hermitian_adjoint(tgt), tgt), Inv(x), x, MaxDiag(x))

\* Mutant: the diagonal of the gradient is left as computed.
ZeroDiag_Kept(g) == g

\* grad.at[jnp.diag_indices_from(grad)].set(0)
ZeroDiag(g) == [i \in Idx |-> [j \in Idx |-> IF i = j THEN Zero ELSE g[i][j]]]

\* init_lr * 0.1
DecayStep(s) == FMul(s, Tenth)

\* x_iter - grad * init_lr
StepFrom(x, g, s) == MatSub(x, MatScale(g, s))

\* compiled_loss(x_iter) + init_lr * 0.25 * jnp.sum(grad ** 2)
sufficient_decrease_condition(tgt, x, g, s) ==
    FAdd(compute_loss_in_x(tgt, x), FMul(FMul(s, Quarter), SumSquares(g)))

\* ------------------------------------------------------------------ state
VARIABLES
    target,           \* argument: the matrix being factorized
    n_iters,          \* argument: iteration count
    initial_x,        \* argument: first iterate
    lr,               \* argument: learning rate
    use_armijo_rule,  \* argument: backtracking or fixed step
    x_iter,           \* the current iterate
    grad1,            \* gradient of the current iteration, diagonal zeroed
    loss_array,       \* losses recorded so far
    time_array,       \* elapsed times recorded so far
    i,                \* number of completed loop iterations
    start,            \* time.time() sampled before the loop
    now,              \* the last value time.time() returned
    init_lr,          \* find_next_iterate frame: its step size
    candidate,        \* find_next_iterate frame: its candidate
    depth,            \* find_next_iterate frames below the current one
    pc                \* position in the code

args == <<target, n_iters, initial_x, lr, use_armijo_rule, pivot_scaling,
         start>>
frame == <<init_lr, candidate, depth>>
vars == <<target, n_iters, initial_x, lr, use_armijo_rule, pivot_scaling,
          x_iter, grad1, loss_array, time_array, i, start, now, init_lr,
          candidate, depth, pc>>

ZeroMat == Mat(Zero, Zero, Zero, Zero)

\* ----------------------------------------------------------------- inputs
Targets ==
    { Mat(One, Zero, Zero, One),            \* identity
      Mat(One, Zero, One, One) }            \* prefix sums

InitialXs ==
    { Mat(One, Ratio(3, 10), Ratio(3, 10), One),
      Mat(One, Ratio(-5, 10), Ratio(3, 10), Two),
      Mat(One, Ratio(3, 10), Two, One),
      Mat(FInt(3), Ratio(17320508, 10000000), Ratio(17320508, 10000000), One),
      Mat(Two, Two, Two, Two),
      Mat(One, Two, Two, One) }

LearningRates == {FInt(10), One}

\* The multiplier of the second row is c * (1 / a), as in LAPACK's getrf,
\* or c / a.
PivotScalings == {"reciprocal", "divide"}

\* No iteration, one iteration, and the largest number explored.
IterCounts == {0, 1, MaxIters}

Init ==
    /\ target \in Targets
    /\ n_iters \in IterCounts
    /\ initial_x \in InitialXs
    /\ lr \in LearningRates
    /\ use_armijo_rule \in BOOLEAN
    /\ pivot_scaling \in PivotScalings
    /\ start = 0
    /\ now = start
    /\ x_iter = initial_x
    /\ grad1 = ZeroMat
    /\ loss_array = <<>>
    /\ time_array = <<>>
    /\ i = 0
    /\ init_lr = Zero
    /\ candidate = ZeroMat
    /\ depth = 0
    /\ pc = "loop"

\* ---------------------------------------------------------------- actions
\* Mutant: the loop stops as soon as the recorded loss stops decreasing.
LoopHasNext_EarlyStop ==
    /\ i < n_iters
    /\ IF Len(loss_array) < 2 THEN TRUE
       ELSE FLess(loss_array[Len(loss_array)],
                  loss_array[Len(loss_array) - 1])

\* for i in range(n_iters)
LoopHasNext == i < n_iters

\* Mutant: the loss is recorded at the iterate the fixed step leads to.
LossAndGrad_RecordAfterStep ==
    /\ pc = "loop"
    /\ i < n_iters
    /\ LET g == ZeroDiag(loss_grad(target, x_iter))
       IN  /\ grad1' = g
           /\ loss_array' = Append(loss_array,
                  compute_loss_in_x(target, StepFrom(x_iter, g, lr)))
    /\ pc' = "step"
    /\ UNCHANGED <<args, x_iter, time_array, i, now, frame>>

\* Lines 89-92: loss and gradient at x_iter, diagonal of the gradient zeroed,
\* loss recorded.
LossAndGrad ==
    /\ pc = "loop"
    /\ LoopHasNext
    /\ grad1' = ZeroDiag(loss_grad(target, x_iter))
    /\ loss_array' = Append(loss_array, compute_loss_in_x(target, x_iter))
    /\ pc' = "step"
    /\ UNCHANGED <<args, x_iter, time_array, i, now, frame>>

\* Lines 98-100 after the step gave x_new: project onto the symmetric
\* matrices, sample the clock, record the elapsed time.  time.time() is the
\* wall clock: between two samples it may stand still, advance or be set
\* back.
EndIteration(x_new) ==
    /\ x_iter' = Symmetrize(x_new)
    /\ \E tick \in {-MaxTick, 0, MaxTick} :
          /\ now' = now + tick
          /\ time_array' = Append(time_array, now + tick - start)
    /\ i' = i + 1
    /\ pc' = "loop"

\* Mutant: the fixed step is taken only when it is positive-definite.
FixedStep_Guarded ==
    /\ pc = "step"
    /\ ~use_armijo_rule
    /\ LET c == StepFrom(x_iter, grad1, lr)
       IN  EndIteration(IF NonPD(c) THEN x_iter ELSE c)
    /\ UNCHANGED <<args, grad1, loss_array, frame>>

\* Line 96 and 98-100: the fixed step.
FixedStep ==
    /\ pc = "step"
    /\ ~use_armijo_rule
    /\ EndIteration(StepFrom(x_iter, grad1, lr))
    /\ UNCHANGED <<args, grad1, loss_array, frame>>

\* Mutant: after the first iteration the search resumes from the step size
\* the previous search ended with.
CallFindNextIterate_CarryOver ==
    /\ pc = "step"
    /\ use_armijo_rule
    /\ init_lr' = IF i = 0 THEN lr ELSE init_lr
    /\ depth' = 0
    /\ candidate' = ZeroMat
    /\ pc' = "find"
    /\ UNCHANGED <<args, x_iter, grad1, loss_array, time_array, i, now>>

\* Line 94, the call: find_next_iterate(x_iter, grad1, lr).
CallFindNextIterate ==
    /\ pc = "step"
    /\ use_armijo_rule
    /\ init_lr' = lr
    /\ depth' = 0
    /\ candidate' = ZeroMat
    /\ pc' = "find"
    /\ UNCHANGED <<args, x_iter, grad1, loss_array, time_array, i, now>>

\* Mutant: a retry cap; the fourth frame gives up and returns its candidate.
Recurse_Capped ==
    IF depth >= 3
    THEN /\ pc' = "ret"
         /\ UNCHANGED <<init_lr, depth>>
    ELSE /\ init_lr' = DecayStep(init_lr)
         /\ depth' = depth + 1
         /\ pc' = "find"

\* The recursive call find_next_iterate(x_iter, grad, init_lr * 0.1).  The
\* code sets no limit of its own; the interpreter raises RecursionError
\* when the stack has no room for another frame, and neither
\* find_next_iterate nor the driver catches it.
Recurse ==
    IF depth + 1 < MaxDepth
    THEN /\ init_lr' = DecayStep(init_lr)
         /\ depth' = depth + 1
         /\ pc' = "find"
    ELSE /\ pc' = "RecursionError"
         /\ UNCHANGED <<init_lr, depth>>

\* Mutant: the cholesky check is skipped.
CholeskyCheck_Skipped ==
    /\ pc = "find"
    /\ candidate' = StepFrom(x_iter, grad1, init_lr)
    /\ pc' = "pd_ok"
    /\ UNCHANGED <<init_lr, depth>>
    /\ UNCHANGED <<args, x_iter, grad1, loss_array, time_array, i, now>>

\* Lines 68-72: build the candidate, check it with cholesky, recurse with a
\* tenth of the step when the check fails.
CholeskyCheck ==
    /\ pc = "find"
    /\ LET c == StepFrom(x_iter, grad1, init_lr)
           non_pd == NonPD(c)
       IN  /\ candidate' = c
           /\ IF non_pd THEN Recurse
              ELSE /\ pc' = "pd_ok"
                   /\ UNCHANGED <<init_lr, depth>>
    /\ UNCHANGED <<args, x_iter, grad1, loss_array, time_array, i, now>>

\* Lines 74-77: the candidate passed cholesky; return it when its loss is at
\* most sufficient_decrease_condition, else recurse with a tenth of the step.
SufficientDecrease ==
    /\ pc = "pd_ok"
    /\ IF FLe(compute_loss_in_x(target, candidate),
              sufficient_decrease_condition(target, x_iter, grad1, init_lr))
       THEN /\ pc' = "ret"
            /\ UNCHANGED <<init_lr, depth>>
       ELSE Recurse
    /\ UNCHANGED <<args, x_iter, grad1, loss_array, time_array, i, now,
                   candidate>>

\* Line 94, the assignment of the returned candidate, and 98-100.
AssignNextIterate ==
    /\ pc = "ret"
    /\ EndIteration(candidate)
    /\ UNCHANGED <<args, grad1, loss_array, frame>>

\* Mutant: the normalized list is not assigned back.
NormalizeTimes_Skipped(times) == times

\* time_array = [x - initial_time for x in time_array]
NormalizeTimes(times) == [n \in 1..Len(times) |-> times[n] - times[1]]

\* Lines 103-105 with at least one recorded time.
Return ==
    /\ pc = "loop"
    /\ ~LoopHasNext
    /\ Len(time_array) > 0
    /\ time_array' = NormalizeTimes(time_array)
    /\ pc' = "done"
    /\ UNCHANGED <<args, x_iter, grad1, loss_array, i, now, frame>>

\* Line 103 with n_iters = 0: time_array[0] raises IndexError.
RaiseIndexError ==
    /\ pc = "loop"
    /\ ~LoopHasNext
    /\ Len(time_array) = 0
    /\ pc' = "IndexError"
    /\ UNCHANGED <<args, x_iter, grad1, loss_array, time_array, i, now, frame>>

Next ==
    \/ LossAndGrad
    \/ FixedStep
    \/ CallFindNextIterate
    \/ CholeskyCheck
    \/ SufficientDecrease
    \/ AssignNextIterate
    \/ Return
    \/ RaiseIndexError

Spec == Init /\ [][Next]_vars

\* ----------------------------------------------------------------- claims
Searching == pc \in {"find", "pd_ok"}

Symmetric(m) == \A a \in Idx, b \in Idx : FEq(m[a][b], m[b][a])

\* lr * 0.1^k, computed as the recursion computes it.
RECURSIVE StepAt(_, _)
StepAt(s, k) == IF k = 0 THEN s ELSE DecayStep(StepAt(s, k - 1))

\* The candidate built from iterate x and gradient g with step s passes the
\* positive-definiteness check.
PassesCholeskyAt(x, g, s) == ~NonPD(StepFrom(x, g, s))

\* loss(candidate) <= loss(x) + s * 0.25 * sum(g^2)
WithinSlackAt(tgt, x, g, s) ==
    FLe(compute_loss_in_x(tgt, StepFrom(x, g, s)),
        FAdd(compute_loss_in_x(tgt, x),
             FMul(FMul(s, Quarter), SumSquares(g))))

AcceptableAt(tgt, x, g, s) ==
    PassesCholeskyAt(x, g, s) /\ WithinSlackAt(tgt, x, g, s)

PassesCholesky(s) == PassesCholeskyAt(x_iter, grad1, s)
WithinSlack(s) == WithinSlackAt(target, x_iter, grad1, s)
Acceptable(s) == AcceptableAt(target, x_iter, grad1, s)

\* C1: a call that has returned ran the loop body exactly n_iters times and
\* both returned trajectories have length n_iters.
C1_ExactlyNIters ==
    pc = "done" =>
        /\ n_iters >= 1
        /\ i = n_iters
        /\ Len(loss_array) = n_iters
        /\ Len(time_array) = n_iters

C1_Witness ==
    /\ pc = "done"
    /\ n_iters = MaxIters
    /\ use_armijo_rule
    /\ depth >= 1

\* C2: a candidate returned by find_next_iterate never has a larger loss
\* than the current iterate (the decrease loss(x_iter) - loss(candidate) is
\* at least c * step * sum(grad^2) >= 0 for a positive c).
C2_AcceptedNeverIncreases ==
    pc = "ret" =>
        FLe(compute_loss_in_x(target, candidate),
            compute_loss_in_x(target, x_iter))

\* C3: a candidate that reached the loss comparison or was returned is the
\* one built with the frame's step size and passed the cholesky check; and
\* when the candidate built with lr fails the check, the returned candidate
\* was built with lr * 0.1^k for some k >= 1, a step strictly below lr.
C3_ReturnedIsPositiveDefinite ==
    /\ pc \in {"pd_ok", "ret"} =>
          /\ candidate = StepFrom(x_iter, grad1, init_lr)
          /\ ~NonPD(candidate)
    /\ (pc = "ret" /\ NonPD(StepFrom(x_iter, grad1, lr))) =>
          /\ depth >= 1
          /\ init_lr = StepAt(lr, depth)
          /\ FLess(init_lr, lr)

C3_Witness ==
    /\ pc = "ret"
    /\ NonPD(StepFrom(x_iter, grad1, lr))
    /\ FLess(Zero, init_lr)

\* C4: after every completed iteration each entry of the iterate and its
\* mirror entry are the same number: they compare equal, or both are nan.
C4_IterateSymmetric ==
    i >= 1 => \A r \in Idx : \A c \in Idx :
                 \/ FEq(x_iter[r][c], x_iter[c][r])
                 \/ (IsNaN(x_iter[r][c]) /\ IsNaN(x_iter[c][r]))

C4_Witness ==
    /\ i >= 1
    /\ ~Symmetric(initial_x)
    /\ Symmetric(x_iter)
    /\ ~FEq(x_iter[1][2], initial_x[1][2])
    /\ ~FEq(x_iter[2][1], initial_x[2][1])

\* C4 as stated: after every completed iteration the iterate equals its
\* transpose.  An iterate with a nan entry does not.
C4_EqualsTranspose == i >= 1 => Symmetric(x_iter)

\* C5: every recorded time is the elapsed time sampled at the end of its
\* iteration, and returning subtracts the first recorded time from every
\* entry, so the first returned time is 0.
C5_TimesNormalized ==
    [][ /\ i' = i + 1 => time_array' = Append(time_array, now' - start)
        /\ (pc # "done" /\ pc' = "done") =>
              /\ Len(time_array') = Len(time_array)
              /\ time_array'[1] = 0
              /\ \A n \in 1..Len(time_array) :
                    time_array'[n] = time_array[n] - time_array[1]
      ]_vars

C5_Witness ==
    /\ pc = "done"
    /\ Len(time_array) >= 2
    /\ time_array[1] = 0
    /\ time_array[Len(time_array)] > 0
    /\ now - start > time_array[Len(time_array)]

\* C6: every search starts from lr; a frame hands its step on, multiplied
\* by 0.1, only when its own candidate fails the cholesky check or has
\* loss(candidate) > loss(x_iter) + step * 0.25 * sum(grad^2); the loss of a
\* candidate is compared only after it passed the cholesky check; and the
\* returned candidate is the one of lr * 0.1^k for the smallest k whose
\* candidate passes both.
C6_FirstAcceptableStep ==
    [][ /\ (pc = "step" /\ pc' = "find") =>
              /\ use_armijo_rule
              /\ init_lr' = lr
              /\ depth' = 0
        /\ (Searching /\ pc' = "find") =>
              /\ ~Acceptable(init_lr)
              /\ init_lr' = FMul(init_lr, Tenth)
              /\ depth' = depth + 1
        /\ pc = "pd_ok" => PassesCholesky(init_lr)
        /\ pc = "ret" =>
              /\ init_lr = StepAt(lr, depth)
              /\ candidate = StepFrom(x_iter, grad1, init_lr)
              /\ Acceptable(init_lr)
              /\ \A j \in 0..(depth - 1) : ~Acceptable(StepAt(lr, j))
      ]_vars

C6_Witness ==
    /\ pc = "ret"
    /\ i >= 1
    /\ depth >= 2
    /\ \E j \in 0..(depth - 1) : ~PassesCholesky(StepAt(lr, j))
    /\ \E j \in 0..(depth - 1) :
          PassesCholesky(StepAt(lr, j)) /\ ~WithinSlack(StepAt(lr, j))

\* C7: every diagonal entry of the iterate equals the corresponding entry of
\* initial_x at all times.
C7_DiagonalFrozen == \A d \in Idx : x_iter[d][d] = initial_x[d][d]

C7_Witness ==
    /\ i >= 2
    /\ use_armijo_rule
    /\ depth >= 1
    /\ x_iter[1][2] # initial_x[1][2]
    /\ ~IsNaN(x_iter[1][2])

\* The frame at position p with step s rejects its candidate.
RejectsAt(p, tgt, x, g, s) ==
    \/ p = "find" /\ ~PassesCholeskyAt(x, g, s)
    \/ p = "pd_ok" /\ ~WithinSlackAt(tgt, x, g, s)

\* C8, as the code behaves: find_next_iterate has no retry cap of its own and
\* returns only from the frame whose candidate passed both checks; a frame
\* that rejects its candidate recurses with a tenth of its step, however
\* small the step, as long as the stack has room, and the driver records
\* nothing meanwhile; when frame MaxDepth rejects too, its recursive call
\* raises RecursionError, which nothing catches: the call of the driver ends
\* there without returning.
C8_ReturnsOnlyByAccepting ==
    [][ /\ (pc # "ret" /\ pc' = "ret") =>
              /\ pc = "pd_ok"
              /\ Acceptable(init_lr)
              /\ candidate' = StepFrom(x_iter, grad1, init_lr)
        /\ RejectsAt(pc, target, x_iter, grad1, init_lr) =>
              /\ UNCHANGED <<x_iter, grad1, loss_array, time_array, i>>
              /\ IF depth + 1 < MaxDepth
                 THEN /\ pc' = "find"
                      /\ init_lr' = DecayStep(init_lr)
                      /\ depth' = depth + 1
                 ELSE pc' = "RecursionError"
        /\ pc' = "RecursionError" =>
              /\ RejectsAt(pc, target, x_iter, grad1, init_lr)
              /\ depth + 1 = MaxDepth
        /\ pc # "RecursionError"
      ]_vars

C8_Witness ==
    /\ pc = "RecursionError"
    /\ depth + 1 = MaxDepth
    /\ NonPD(x_iter)
    /\ IsZero(init_lr)

\* C8, as stated: a frame that rejects its candidate always recurses into a
\* deeper frame, so a search in which no step is accepted goes on for ever
\* and reaches no error state.
C8_RecursesForEver ==
    [][ RejectsAt(pc, target, x_iter, grad1, init_lr) =>
            pc' = "find" /\ depth' = depth + 1 ]_vars

\* C9: during an iteration the last recorded loss is the loss at the iterate
\* the iteration started from while no time is recorded for it yet; between
\* iterations and at the return both arrays hold one entry per completed
\* iteration, so the first loss is that of initial_x and the loss of the
\* final iterate is not recorded.
C9_LossRecordedBeforeUpdate ==
    /\ Len(time_array) = i
    /\ pc \in {"loop", "done", "IndexError"} => Len(loss_array) = i
    /\ pc \in {"step", "find", "pd_ok", "ret", "RecursionError"} =>
          /\ Len(loss_array) = i + 1
          /\ loss_array[i + 1] = compute_loss_in_x(target, x_iter)
    /\ Len(loss_array) >= 1 =>
          loss_array[1] = compute_loss_in_x(target, initial_x)

C9_Witness ==
    /\ pc = "done"
    /\ n_iters >= 2
    /\ loss_array[2] # loss_array[1]
    /\ \A n \in 1..Len(loss_array) :
          loss_array[n] # compute_loss_in_x(target, x_iter)

\* C10: with use_armijo_rule = False no find_next_iterate frame ever exists
\* and every iteration replaces x_iter by the symmetrization of
\* x_iter - lr * grad1, whether or not that matrix is positive-definite,
\* and goes on to the next iteration.
C10_FixedStepUnchecked ==
    [][ ~use_armijo_rule =>
          /\ pc' \notin {"find", "pd_ok", "ret", "RecursionError"}
          /\ init_lr' = Zero /\ depth' = 0 /\ candidate' = ZeroMat
          /\ pc = "step" =>
                /\ x_iter' = Symmetrize(MatSub(x_iter, MatScale(grad1, lr)))
                /\ i' = i + 1
                /\ pc' = "loop"
      ]_vars

C10_Witness ==
    /\ ~use_armijo_rule
    /\ ~NonPD(initial_x)
    /\ i >= 1
    /\ NonPD(x_iter)
    /\ pc = "step"
    /\ Len(loss_array) = i + 1

====
